---- MODULE Spec2Model ----
(***************************************************************************)
(* A model of download.py: download_social_preview_images.                  *)
(*                                                                          *)
(* One run: create the output directory, load the JSON input, open one      *)
(* requests.Session, and for every item in order: GET the Google_Maps URL,  *)
(* submit the consent form when the page holds one and GET the URL again,   *)
(* look up the image meta tag, GET the image, write it to                   *)
(* place_images/<sanitized Place_Name>.jpg and set item["image"]; finally   *)
(* dump the items to places_with_images.json.                               *)
(*                                                                          *)
(* Strings the program computes on (place names, paths, URLs, attribute     *)
(* values) are sequences of characters or chunks; a JSON value or an HTML   *)
(* attribute is a record [kind, s] with kind "absent", "null" or "str".     *)
(* The network and the file system are the environment: every request ends  *)
(* with a response or with one of the requests exceptions, every file       *)
(* operation succeeds or raises OSError.                                    *)
(***************************************************************************)
EXTENDS Integers, Sequences, FiniteSets, TLC

\* ------------------------------------------------------------------ bounds
MaxRecords == 2     \* longest input list explored
MaxNameLen == 3     \* longest display name explored by the sanitization runs

\* ------------------------------------------------------------ JSON values
JAbsent == [kind |-> "absent", s |-> <<>>]      \* key / attribute not present
JNull == [kind |-> "null", s |-> <<>>]          \* JSON null, Python None
JStr(s) == [kind |-> "str", s |-> s]            \* a string

\* Python truthiness of a value obtained with .get(): None and "" are falsy.
Truthy(v) == v.kind = "str" /\ v.s # <<>>

\* dict.get(key, default): the default replaces only a missing key.
GetDefault(v, default) == IF v.kind = "absent" THEN default ELSE v

\* d[k] = v on a dict modelled as a function.
DictSet(d, k, v) == [x \in DOMAIN d \cup {k} |-> IF x = k THEN v ELSE d[x]]

EmptyDict == [x \in {} |-> <<>>]

\* -------------------------------------------------------- program constants
output_dir == <<"place_images">>
json_output_path == <<"places_with_images.json">>
\* "unknown_place", the default of item.get("Place_Name", ...)
unknown_place ==
    JStr(<<"u", "n", "k", "n", "o", "w", "n", "_", "p", "l", "a", "c", "e">>)
ConsentPattern == "https://consent.google.com/save"
IllegalChars == {"\\", "/", "*", "?", ":", "\"", "<", ">", "|"}

\* The cookie a consent server sets when the form is accepted.
ConsentCookie == "CONSENT"

\* Exceptions of requests caught at the record boundary: Timeout by the first
\* handler, every other RequestException (connection failure, HTTPError of
\* raise_for_status) by the second.
RequestExceptions == {"Timeout", "ConnectionError", "HTTPError"}

\* -------------------------------------------------------------- sanitizing
\* re.sub(r'[\\/*?:"<>|]', "", place_name).replace(" ", "_")
sanitize_keeps_colon(n) ==
    LET kept == SelectSeq(n, LAMBDA c : c \notin (IllegalChars \ {":"}))
    IN  [i \in 1..Len(kept) |-> IF kept[i] = " " THEN "_" ELSE kept[i]]

sanitize(n) ==
    LET kept == SelectSeq(n, LAMBDA c : c \notin IllegalChars)
    IN  [i \in 1..Len(kept) |-> IF kept[i] = " " THEN "_" ELSE kept[i]]

\* os.path.join(output_dir, f"{sanitized_name}.jpg")
ImagePath(sanitized_name) == output_dir \o <<"/">> \o sanitized_name \o <<".jpg">>

\* ------------------------------------------------------------------- items
SetImageOfFirst(d, i, v) == [d EXCEPT ![1].image = v]

\* item["image"] = v on the i-th item of the list.
SetImage(d, i, v) == [d EXCEPT ![i].image = v]

NoUrlOnlyNone(url) == url.kind # "str"

\* if not google_maps_url
NoUrl(url) == ~Truthy(url)

\* ------------------------------------------------------------------- pages
\* soup.find_all('form', action=re.compile(ConsentPattern)): the forms whose
\* action attribute holds the pattern, in document order.  An action is a
\* sequence of chunks and the search finds the pattern as one of them.
ConsentMatch(action) ==
    action.kind = "str" /\ \E k \in 1..Len(action.s) : action.s[k] = ConsentPattern

find_all_forms(page) == page.forms

find_all_consent_forms(page) == SelectSeq(page.forms, LAMBDA f : ConsentMatch(f.action))

\* consent_forms[-1]
LastForm(forms) == forms[Len(forms)]

\* The loop over form_to_submit.find_all('input'): every input tag with a
\* truthy name, whatever its type; a missing value is ''; a later input of
\* the same name replaces the earlier one.
RECURSIVE CollectInputs(_, _, _)
CollectInputs(inputs, k, acc) ==
    IF k > Len(inputs) THEN acc
    ELSE LET name == inputs[k].name
             value == GetDefault(inputs[k].value, JStr(<<>>))
         IN  CollectInputs(inputs, k + 1,
                           IF Truthy(name) THEN DictSet(acc, name.s, value.s) ELSE acc)

FormData(form) == CollectInputs(form.inputs, 1, EmptyDict)

\* soup.find("meta", attrs={attr: val}): the first such meta tag, <<>> if none.
FindMeta(page, attr, val) ==
    LET hits == SelectSeq(page.metas, LAMBDA m : m[attr] = JStr(<<val>>))
    IN  IF hits = <<>> THEN <<>> ELSE <<hits[1]>>

FindImageTagOgFirst(page) ==
    IF FindMeta(page, "property", "og:image") # <<>>
    THEN FindMeta(page, "property", "og:image")
    ELSE FindMeta(page, "itemprop", "image")

FindImageTagWithContent(page) ==
    IF \E k \in 1..Len(page.metas) :
          page.metas[k].itemprop = JStr(<<"image">>) /\ Truthy(page.metas[k].content)
    THEN FindMeta(page, "itemprop", "image")
    ELSE FindMeta(page, "property", "og:image")

\* soup.find(itemprop=image) or soup.find(property=og:image): a found tag is
\* truthy whatever its attributes, so og:image is looked up only when no
\* itemprop=image tag exists.
FindImageTag(page) ==
    IF FindMeta(page, "itemprop", "image") # <<>>
    THEN FindMeta(page, "itemprop", "image")
    ELSE FindMeta(page, "property", "og:image")

\* image_tag and image_tag.get("content")
HasContent(tag) == tag # <<>> /\ Truthy(tag[1].content)

KeepFirstSoup(initial, final) == initial

\* soup = BeautifulSoup(final_response.text, 'html.parser') after the re-GET
ReparsedSoup(initial, final) == final

CaughtOnlyTimeout(exc) == exc = "Timeout"

\* except requests.exceptions.Timeout / except requests.exceptions.RequestException
Caught(exc) == exc \in RequestExceptions

\* ------------------------------------------------- the environment explored
\* Input tags, forms, meta tags and pages a server may answer with.
Input(type, name, value) == [type |-> type, name |-> name, value |-> value]

Hidden(name, value) == Input(JStr(<<"hidden">>), JStr(<<name>>), JStr(<<value>>))

RejectForm ==
    [action |-> JStr(<<ConsentPattern>>),
     inputs |-> <<Hidden("set_eom", "true"), Hidden("bl", "r1")>>]

AcceptForm ==
    [action |-> JStr(<<ConsentPattern>>),
     inputs |-> <<Hidden("set_eom", "false"), Hidden("bl", "r1")>>]

\* A consent form with a hidden field, a named submit button, a named input
\* without type and value, and a submit button without name.
AcceptFormWithButton ==
    [action |-> JStr(<<ConsentPattern, "?hl=en">>),
     inputs |-> <<Hidden("set_eom", "false"),
                  Input(JStr(<<"submit">>), JStr(<<"btn">>), JStr(<<"Accept all">>)),
                  Input(JAbsent, JStr(<<"q">>), JAbsent),
                  Input(JStr(<<"submit">>), JAbsent, JStr(<<"More options">>))>>]

SearchForm ==
    [action |-> JStr(<<"https://www.google.com/search">>),
     inputs |-> <<Hidden("hl", "en"), Input(JStr(<<"text">>), JStr(<<"q">>), JStr(<<>>))>>]

ItemProp(content) == [itemprop |-> JStr(<<"image">>), property |-> JAbsent, content |-> content]

OgImage(content) == [itemprop |-> JAbsent, property |-> JStr(<<"og:image">>), content |-> content]

ImgA == JStr(<<"https://img/A.jpg">>)
ImgB == JStr(<<"https://img/B.jpg">>)

MetaLists ==
    { <<>>,
      <<OgImage(ImgB)>>,
      <<OgImage(ImgB), ItemProp(ImgA)>>,
      <<ItemProp(JAbsent), OgImage(ImgB)>>,
      <<ItemProp(JStr(<<>>)), OgImage(ImgB)>> }

\* Pages without consent form, with every list of meta tags, and two consent
\* pages, one of them with an image meta tag of its own.
PlainPages == [forms : {<<SearchForm>>}, metas : MetaLists]

ConsentPages ==
    { [forms |-> <<RejectForm, AcceptForm, SearchForm>>, metas |-> <<>>],
      [forms |-> <<AcceptForm, AcceptFormWithButton>>, metas |-> <<OgImage(ImgB)>>] }

Pages == PlainPages \cup ConsentPages

\* Image bodies, as sequences of chunks.
ImageBodies == { <<"x1", "x2">>, <<"y1", "y2">> }

\* The proper prefixes of a body: what a failed write can leave in the file.
ProperPrefixes(b) == { SubSeq(b, 1, n) : n \in 0..(Len(b) - 1) }

Item(url, name, image, extra) ==
    [Google_Maps |-> url, Place_Name |-> name, image |-> image, Rating |-> extra]

U1 == JStr(<<"https://maps.app.goo.gl/1">>)
U2 == JStr(<<"https://maps.app.goo.gl/2">>)

\* The records an input list is made of.  "a b" and "a:_b" sanitize to the
\* same file name.
InputRecords ==
    { Item(U1, JStr(<<"a", " ", "b">>), JAbsent, JStr(<<"4.5">>)),
      Item(U2, JStr(<<"a", ":", "_", "b">>), JStr(<<"old.png">>), JAbsent),
      Item(U1, JAbsent, JAbsent, JNull),
      Item(U2, JNull, JAbsent, JStr(<<"3">>)),
      Item(JAbsent, JStr(<<"c", "?">>), JAbsent, JStr(<<"5">>)),
      Item(JNull, JAbsent, JStr(<<"old.png">>), JAbsent),
      Item(JStr(<<>>), JStr(<<"d">>), JAbsent, JStr(<<"1">>)) }

BoundedSeqs(S, n) == UNION { [1..k -> S] : k \in 0..n }

\* locations.json: missing, not JSON, or a list of records.
InputFiles ==
    { [status |-> "missing", items |-> <<>>], [status |-> "malformed", items |-> <<>>] }
    \cup { [status |-> "ok", items |-> s] : s \in BoundedSeqs(InputRecords, MaxRecords) }

NameAlphabet == IllegalChars \cup {"a", " ", "_"}

Names == BoundedSeqs(NameAlphabet, MaxNameLen)

\* ------------------------------------------------------------------- state
VARIABLES
    pc,                 \* position in download_social_preview_images
    input_file,         \* locations.json as found on disk
    dir_state,          \* place_images: "absent", "exists" (before the run) or "created"
    files,              \* the files in place_images: path -> content
    results_file,       \* places_with_images.json: <<>> while absent, else <<the list>>
    session,            \* the requests.Session: "none", "open", "closed"
    cookies,            \* session.cookies: the names of the cookies in the jar
    data,               \* the loaded list of items
    idx,                \* position of the for loop, 1-based
    reqs,               \* the requests issued for the item taken last from the list
    printed,            \* the outcome lines printed so far, one per item done
    initial_response,   \* <<page>> once the first GET has answered
    final_response,     \* <<page>> once the final page is known
    soup,               \* <<page>>: the parsed page the meta tag is looked up in
    form_action,        \* action of the form to submit
    form_data,          \* dict of the form's input fields
    image_url,
    image_path,
    image_content,      \* image_response.content
    san_name,           \* sanitization runs: the display name,
    san_once,           \*   <<sanitize(name)>> and
    san_twice           \*   <<sanitize(sanitize(name))>>

locals == <<initial_response, final_response, soup, form_action, form_data,
            image_url, image_path, image_content>>
fs == <<dir_state, files, results_file>>
sanvars == <<san_name, san_once, san_twice>>
vars == <<pc, input_file, dir_state, files, results_file, session, cookies, data, idx,
          reqs, printed, locals, sanvars>>

NoLocals ==
    /\ initial_response = <<>>
    /\ final_response = <<>>
    /\ soup = <<>>
    /\ form_action = <<>>
    /\ form_data = EmptyDict
    /\ image_url = <<>>
    /\ image_path = <<>>
    /\ image_content = <<>>

Init ==
    /\ pc = "start"
    /\ input_file \in InputFiles
    /\ dir_state \in {"absent", "exists"}
    /\ files = EmptyDict
    /\ results_file = <<>>
    /\ session = "none"
    /\ cookies = {}
    /\ data = <<>>
    /\ idx = 1
    /\ reqs = <<>>
    /\ printed = <<>>
    /\ NoLocals
    /\ san_name = <<>> /\ san_once = <<>> /\ san_twice = <<>>

item == data[idx]
google_maps_url == item.Google_Maps
place_name == GetDefault(item.Place_Name, unknown_place)

\* One entry of the request log; the session sends the cookies of its jar.
Request(method, url, body, exc, page, content) ==
    [item |-> idx, method |-> method, url |-> url, data |-> body, exc |-> exc,
     page |-> page, content |-> content, cookies |-> cookies]

\* The locals are dead when an item is done: the next item assigns each
\* before reading it.
DropLocals ==
    /\ initial_response' = <<>>
    /\ final_response' = <<>>
    /\ soup' = <<>>
    /\ form_action' = <<>>
    /\ form_data' = EmptyDict
    /\ image_url' = <<>>
    /\ image_path' = <<>>
    /\ image_content' = <<>>

\* The end of one iteration of the for loop with item["image"] = v.
EndItem(v, line) ==
    /\ data' = SetImage(data, idx, v)
    /\ printed' = Append(printed, line)
    /\ idx' = idx + 1
    /\ pc' = "loop"
    /\ DropLocals

RaiseKeepsImage(exc) ==
    IF exc \in RequestExceptions
    THEN /\ data' = data
         /\ printed' = Append(printed, IF exc = "Timeout" THEN "timeout" ELSE "error")
         /\ idx' = idx + 1
         /\ pc' = "loop"
         /\ DropLocals
    ELSE /\ pc' = "crashed"
         /\ printed' = Append(printed, exc)
         /\ UNCHANGED <<data, idx, locals>>

RaiseRetries(exc) ==
    IF exc \in RequestExceptions
    THEN /\ pc' = "get1"
         /\ UNCHANGED <<data, idx, printed>>
         /\ DropLocals
    ELSE /\ pc' = "crashed"
         /\ printed' = Append(printed, exc)
         /\ UNCHANGED <<data, idx, locals>>

\* An exception raised inside the try block: the two handlers set the image
\* to None and the loop goes on; any other exception leaves the function.
Raise(exc) ==
    IF Caught(exc)
    THEN EndItem(JNull, IF exc = "Timeout" THEN "timeout" ELSE "error")
    ELSE /\ pc' = "crashed"
         /\ printed' = Append(printed, exc)
         /\ UNCHANGED <<data, idx, locals>>

\* ----------------------------------------------------------------- actions
\* os.makedirs(output_dir, exist_ok=True)
MakeDirs ==
    /\ pc = "start"
    /\ dir_state' = IF dir_state = "absent" THEN "created" ELSE dir_state
    /\ pc' = "load"
    /\ UNCHANGED <<input_file, files, results_file, session, cookies, data, idx, reqs, printed,
                   locals, sanvars>>

\* open(json_input_path) raises FileNotFoundError: message and return.
LoadFileNotFound ==
    /\ pc = "load"
    /\ input_file.status = "missing"
    /\ printed' = Append(printed, "file not found")
    /\ pc' = "fatal"
    /\ UNCHANGED <<input_file, fs, session, cookies, data, idx, reqs, locals, sanvars>>

\* json.load raises JSONDecodeError: message and return.
LoadDecodeError ==
    /\ pc = "load"
    /\ input_file.status = "malformed"
    /\ printed' = Append(printed, "could not decode")
    /\ pc' = "fatal"
    /\ UNCHANGED <<input_file, fs, session, cookies, data, idx, reqs, locals, sanvars>>

\* data = json.load(f), then the session is opened and its headers are set.
LoadOk ==
    /\ pc = "load"
    /\ input_file.status = "ok"
    /\ data' = input_file.items
    /\ session' = "open"
    /\ cookies' = {}
    /\ idx' = 1
    /\ pc' = "loop"
    /\ UNCHANGED <<input_file, fs, reqs, printed, locals, sanvars>>

\* for item in data: an item without URL is skipped with image None.
SkipItem ==
    /\ pc = "loop"
    /\ idx <= Len(data)
    /\ NoUrl(google_maps_url)
    /\ EndItem(JNull, "skip")
    /\ reqs' = <<>>
    /\ UNCHANGED <<input_file, fs, session, cookies, sanvars>>

BeginItemNewSession ==
    /\ pc = "loop"
    /\ idx <= Len(data)
    /\ ~NoUrl(google_maps_url)
    /\ reqs' = <<>>
    /\ cookies' = {}
    /\ pc' = "get1"
    /\ UNCHANGED <<input_file, fs, session, data, idx, printed, locals, sanvars>>

\* An item with a URL enters the try block.
BeginItem ==
    /\ pc = "loop"
    /\ idx <= Len(data)
    /\ ~NoUrl(google_maps_url)
    /\ reqs' = <<>>
    /\ pc' = "get1"
    /\ UNCHANGED <<input_file, fs, session, cookies, data, idx, printed, locals, sanvars>>

\* initial_response = session.get(google_maps_url, timeout=15); raise_for_status();
\* soup = BeautifulSoup(initial_response.text)
InitialGetOk ==
    /\ pc = "get1"
    /\ \E page \in Pages :
          /\ reqs' = Append(reqs, Request("GET", google_maps_url.s, EmptyDict, "",
                                          <<page>>, <<>>))
          /\ initial_response' = <<page>>
          /\ soup' = <<page>>
    /\ pc' = "forms"
    /\ UNCHANGED <<input_file, fs, session, cookies, data, idx, printed, final_response,
                   form_action, form_data, image_url, image_path, image_content, sanvars>>

InitialGetFails ==
    /\ pc = "get1"
    /\ \E exc \in RequestExceptions :
          /\ reqs' = Append(reqs, Request("GET", google_maps_url.s, EmptyDict, exc,
                                          <<>>, <<>>))
          /\ Raise(exc)
    /\ UNCHANGED <<input_file, fs, session, cookies, sanvars>>

\* consent_forms = soup.find_all(...); with a consent form: the last one is
\* chosen and its fields are collected.
ConsentDetected ==
    /\ pc = "forms"
    /\ find_all_consent_forms(soup[1]) # <<>>
    /\ LET form_to_submit == LastForm(find_all_consent_forms(soup[1]))
       IN  /\ form_action' = form_to_submit.action.s
           /\ form_data' = FormData(form_to_submit)
    /\ pc' = "post"
    /\ UNCHANGED <<input_file, fs, session, cookies, data, idx, reqs, printed, initial_response,
                   final_response, soup, image_url, image_path, image_content, sanvars>>

\* else: final_response = initial_response
NoConsent ==
    /\ pc = "forms"
    /\ find_all_consent_forms(soup[1]) = <<>>
    /\ final_response' = initial_response
    /\ pc' = "locate"
    /\ UNCHANGED <<input_file, fs, session, cookies, data, idx, reqs, printed, initial_response,
                   soup, form_action, form_data, image_url, image_path, image_content,
                   sanvars>>

\* session.post(form_action, data=form_data, timeout=15); raise_for_status().
\* The jar keeps the cookie the answer may set.
ConsentPostOk ==
    /\ pc = "post"
    /\ reqs' = Append(reqs, Request("POST", form_action, form_data, "", <<>>, <<>>))
    /\ \E set_cookie \in BOOLEAN :
          cookies' = IF set_cookie THEN cookies \cup {ConsentCookie} ELSE cookies
    /\ pc' = "get2"
    /\ UNCHANGED <<input_file, fs, session, data, idx, printed, locals, sanvars>>

ConsentPostFails ==
    /\ pc = "post"
    /\ \E exc \in RequestExceptions :
          /\ reqs' = Append(reqs, Request("POST", form_action, form_data, exc, <<>>, <<>>))
          /\ Raise(exc)
    /\ UNCHANGED <<input_file, fs, session, cookies, sanvars>>

SecondGetOkRechecks ==
    /\ pc = "get2"
    /\ \E page \in Pages :
          /\ reqs' = Append(reqs, Request("GET", google_maps_url.s, EmptyDict, "",
                                          <<page>>, <<>>))
          /\ final_response' = <<page>>
          /\ soup' = <<page>>
    /\ pc' = "forms"
    /\ UNCHANGED <<input_file, fs, session, cookies, data, idx, printed, initial_response,
                   form_action, form_data, image_url, image_path, image_content, sanvars>>

\* final_response = session.get(google_maps_url, timeout=15); raise_for_status();
\* soup = BeautifulSoup(final_response.text)
SecondGetOk ==
    /\ pc = "get2"
    /\ \E page \in Pages :
          /\ reqs' = Append(reqs, Request("GET", google_maps_url.s, EmptyDict, "",
                                          <<page>>, <<>>))
          /\ final_response' = <<page>>
          /\ soup' = <<ReparsedSoup(initial_response[1], page)>>
    /\ pc' = "locate"
    /\ UNCHANGED <<input_file, fs, session, cookies, data, idx, printed, initial_response,
                   form_action, form_data, image_url, image_path, image_content, sanvars>>

SecondGetFails ==
    /\ pc = "get2"
    /\ \E exc \in RequestExceptions :
          /\ reqs' = Append(reqs, Request("GET", google_maps_url.s, EmptyDict, exc,
                                          <<>>, <<>>))
          /\ Raise(exc)
    /\ UNCHANGED <<input_file, fs, session, cookies, sanvars>>

\* image_tag with content: image_url, sanitized_name, image_filename, image_path.
\* re.sub raises TypeError on a Place_Name that is null.
ImageTagFound ==
    /\ pc = "locate"
    /\ HasContent(FindImageTag(soup[1]))
    /\ IF place_name.kind = "str"
       THEN /\ image_url' = FindImageTag(soup[1])[1].content.s
            /\ image_path' = ImagePath(sanitize(place_name.s))
            /\ pc' = "imgget"
            /\ UNCHANGED <<data, idx, printed, initial_response, final_response, soup,
                           form_action, form_data, image_content>>
       ELSE Raise("TypeError")
    /\ UNCHANGED <<input_file, fs, session, cookies, reqs, sanvars>>

\* else: item["image"] = None and the warning
ImageTagNotFound ==
    /\ pc = "locate"
    /\ ~HasContent(FindImageTag(soup[1]))
    /\ EndItem(JNull, "warning")
    /\ UNCHANGED <<input_file, fs, session, cookies, reqs, sanvars>>

\* image_response = session.get(image_url, timeout=15); raise_for_status()
ImageGetOk ==
    /\ pc = "imgget"
    /\ \E body \in ImageBodies :
          /\ reqs' = Append(reqs, Request("GET", image_url, EmptyDict, "", <<>>, body))
          /\ image_content' = body
    /\ pc' = "open"
    /\ UNCHANGED <<input_file, fs, session, cookies, data, idx, printed, initial_response,
                   final_response, soup, form_action, form_data, image_url, image_path,
                   sanvars>>

ImageGetFailsAfterOpen ==
    /\ pc = "imgget"
    /\ \E exc \in RequestExceptions :
          /\ reqs' = Append(reqs, Request("GET", image_url, EmptyDict, exc, <<>>, <<>>))
          /\ Raise(exc)
    /\ files' = DictSet(files, image_path, <<>>)
    /\ UNCHANGED <<input_file, dir_state, results_file, session, cookies, sanvars>>

ImageGetFails ==
    /\ pc = "imgget"
    /\ \E exc \in RequestExceptions :
          /\ reqs' = Append(reqs, Request("GET", image_url, EmptyDict, exc, <<>>, <<>>))
          /\ Raise(exc)
    /\ UNCHANGED <<input_file, fs, session, cookies, sanvars>>

OpenImageFileSkipsExisting ==
    /\ pc = "open"
    /\ IF image_path \in DOMAIN files
       THEN /\ EndItem(JStr(image_path), "success")
            /\ UNCHANGED files
       ELSE /\ files' = DictSet(files, image_path, <<>>)
            /\ pc' = "fwrite"
            /\ UNCHANGED <<data, idx, printed, locals>>
    /\ UNCHANGED <<input_file, dir_state, results_file, session, cookies, reqs, sanvars>>

\* open(image_path, "wb"): the file is created or truncated.
OpenImageFile ==
    /\ pc = "open"
    /\ files' = DictSet(files, image_path, <<>>)
    /\ pc' = "fwrite"
    /\ UNCHANGED <<input_file, dir_state, results_file, session, cookies, data, idx, reqs, printed,
                   locals, sanvars>>

\* open raises OSError (name too long, no permission, ...): nothing is written.
OpenImageFileFails ==
    /\ pc = "open"
    /\ Raise("OSError")
    /\ UNCHANGED <<input_file, fs, session, cookies, reqs, sanvars>>

\* f.write(image_response.content) and the close of the with block, then
\* item["image"] = image_path.
WriteImageFile ==
    /\ pc = "fwrite"
    /\ files' = DictSet(files, image_path, image_content)
    /\ EndItem(JStr(image_path), "success")
    /\ UNCHANGED <<input_file, dir_state, results_file, session, cookies, reqs, sanvars>>

\* The write or the flush at close raises OSError (disk full, ...): the file
\* keeps whatever part had been written.
WriteImageFileFails ==
    /\ pc = "fwrite"
    /\ \E part \in ProperPrefixes(image_content) :
          files' = DictSet(files, image_path, part)
    /\ Raise("OSError")
    /\ UNCHANGED <<input_file, dir_state, results_file, session, cookies, reqs, sanvars>>

\* The for loop is exhausted and the with block closes the session.
LoopEnd ==
    /\ pc = "loop"
    /\ idx > Len(data)
    /\ session' = "closed"
    /\ reqs' = <<>>
    /\ pc' = "save"
    /\ UNCHANGED <<input_file, fs, cookies, data, idx, printed, locals, sanvars>>

SaveResultsInLoop ==
    /\ pc \in {"loop", "save"}
    /\ results_file' = <<data>>
    /\ printed' = Append(printed, "complete")
    /\ pc' = "done"
    /\ UNCHANGED <<input_file, dir_state, files, session, cookies, data, idx, reqs, locals,
                   sanvars>>

\* json.dump(data, f, indent=4, ensure_ascii=False) into places_with_images.json
SaveResults ==
    /\ pc = "save"
    /\ results_file' = <<data>>
    /\ printed' = Append(printed, "complete")
    /\ pc' = "done"
    /\ UNCHANGED <<input_file, dir_state, files, session, cookies, data, idx, reqs, locals,
                   sanvars>>

Next ==
    \/ MakeDirs
    \/ LoadFileNotFound
    \/ LoadDecodeError
    \/ LoadOk
    \/ SkipItem
    \/ BeginItem
    \/ InitialGetOk
    \/ InitialGetFails
    \/ ConsentDetected
    \/ NoConsent
    \/ ConsentPostOk
    \/ ConsentPostFails
    \/ SecondGetOk
    \/ SecondGetFails
    \/ ImageTagFound
    \/ ImageTagNotFound
    \/ ImageGetOk
    \/ ImageGetFails
    \/ OpenImageFile
    \/ OpenImageFileFails
    \/ WriteImageFile
    \/ WriteImageFileFails
    \/ LoopEnd
    \/ SaveResults

Spec == Init /\ [][Next]_vars

\* ------------------------------------------- a server that gates on consent
HasConsentForm(page) == \E k \in 1..Len(page.forms) : ConsentMatch(page.forms[k].action)

\* The server of the consent scenario: it shows the consent form only to a
\* session that sends no consent cookie, and its answer to an accepted form
\* sets that cookie.
ConsentServerRule ==
    /\ (pc \in {"get1", "get2"} /\ pc' \in {"forms", "locate"}
            /\ HasConsentForm(reqs'[Len(reqs')].page[1]))
          => ConsentCookie \notin cookies
    /\ (pc = "post" /\ pc' = "get2") => ConsentCookie \in cookies'

ConsentServerNext == Next /\ ConsentServerRule

ConsentServerSpec == Init /\ [][ConsentServerNext]_vars

\* --------------------------------------------- sanitization on its own
\* The display names up to MaxNameLen over the characters the rule is about,
\* sanitized once and then once more.
SanInit ==
    /\ pc = "san"
    /\ input_file = [status |-> "missing", items |-> <<>>]
    /\ dir_state = "absent"
    /\ files = EmptyDict
    /\ results_file = <<>>
    /\ session = "none"
    /\ cookies = {}
    /\ data = <<>>
    /\ idx = 1
    /\ reqs = <<>>
    /\ printed = <<>>
    /\ NoLocals
    /\ san_name \in Names
    /\ san_once = <<>> /\ san_twice = <<>>

SanitizeOnce ==
    /\ pc = "san"
    /\ san_once' = <<sanitize(san_name)>>
    /\ pc' = "san1"
    /\ UNCHANGED <<input_file, fs, session, cookies, data, idx, reqs, printed, locals, san_name,
                   san_twice>>

SanitizeAgain ==
    /\ pc = "san1"
    /\ san_twice' = <<sanitize(san_once[1])>>
    /\ pc' = "san2"
    /\ UNCHANGED <<input_file, fs, session, cookies, data, idx, reqs, printed, locals, san_name,
                   san_once>>

SanNext == SanitizeOnce \/ SanitizeAgain

SanSpec == SanInit /\ [][SanNext]_vars

\* ------------------------------------------------------------------ claims
Terminated == pc \in {"done", "fatal", "crashed"}

InItem == pc \in {"get1", "forms", "post", "get2", "locate", "imgget", "open", "fwrite"}

Last(s) == s[Len(s)]

\* A Google_Maps value that is absent, null or empty.
NoUrlValue(u) == u.kind \in {"absent", "null"} \/ u.s = <<>>

\* Two items that differ at most in their image field.
SameButImage(a, b) ==
    /\ a.Google_Maps = b.Google_Maps
    /\ a.Place_Name = b.Place_Name
    /\ a.Rating = b.Rating

\* C1 (as claimed): once the input is loaded, no failure while processing a
\* record aborts the run; the run ends with the results file written.
C1_NoRecordFailureAborts ==
    (Terminated /\ input_file.status = "ok") => (pc = "done" /\ results_file = <<data>>)

\* C2: when the loop over the records has ended, every record carries an
\* image field that is null or the path of its image file, whatever the
\* record held before and whichever branch it took.
C2_EveryRecordHasImage ==
    pc \in {"save", "done"} =>
        /\ Len(data) = Len(input_file.items)
        /\ \A i \in 1..Len(data) :
              \/ data[i].image = JNull
              \/ /\ data[i].image.kind = "str"
                 /\ data[i].image.s \in DOMAIN files
                 /\ data[i].image.s =
                       ImagePath(sanitize(GetDefault(data[i].Place_Name, unknown_place).s))

C2_Witness ==
    /\ pc = "save"
    /\ Len(data) = 2
    /\ input_file.items[1].image.kind = "str"
    /\ data[1].image = JNull
    /\ data[2].image.kind = "str"

\* C3: for a record whose first GET answers with a consent page, the requests
\* are, in this order and with nothing in between, the GET of the source URL,
\* one POST to a consent form action, one second GET of the same URL, and
\* only then the image GET; the meta tag is looked up in the page of the
\* second GET, and the image URL requested is the one found in that page.
C3_ConsentSequence ==
    (reqs # <<>> /\ reqs[1].exc = "" /\ HasConsentForm(reqs[1].page[1])) =>
        /\ reqs[1].method = "GET"
        /\ reqs[1].url = data[reqs[1].item].Google_Maps.s
        /\ Len(reqs) <= 4
        /\ (InItem /\ Len(reqs) = 1) => pc \in {"forms", "post"}
        /\ Len(reqs) >= 2 => (reqs[2].method = "POST" /\ ConsentMatch(JStr(reqs[2].url)))
        /\ (InItem /\ Len(reqs) = 2) => pc = "get2"
        /\ Len(reqs) >= 3 =>
              /\ reqs[2].exc = ""
              /\ reqs[3].method = "GET"
              /\ reqs[3].url = reqs[1].url
        /\ (InItem /\ Len(reqs) = 3) => pc \in {"locate", "imgget"}
        /\ pc = "locate" => soup = reqs[3].page
        /\ pc = "imgget" => image_url = FindImageTag(reqs[3].page[1])[1].content.s
        /\ Len(reqs) = 4 =>
              /\ reqs[3].exc = ""
              /\ reqs[4].method = "GET"
              /\ reqs[4].url = FindImageTag(reqs[3].page[1])[1].content.s

C3_Witness ==
    /\ Len(reqs) = 4
    /\ reqs[1].exc = ""
    /\ HasConsentForm(reqs[1].page[1])
    /\ reqs[1].page[1].metas = <<OgImage(ImgB)>>
    /\ reqs[4].url = ImgA.s

\* The name/value pairs of the hidden inputs of a form.
HiddenPairs(form) ==
    { <<form.inputs[k].name.s, form.inputs[k].value.s>> :
        k \in { j \in 1..Len(form.inputs) : form.inputs[j].type = JStr(<<"hidden">>) } }

DictPairs(d) == { <<k, d[k]>> : k \in DOMAIN d }

\* The last form of the page, in document order, whose action matches.
LastConsentForm(page) ==
    page.forms[CHOOSE k \in 1..Len(page.forms) :
                  /\ ConsentMatch(page.forms[k].action)
                  /\ \A j \in (k + 1)..Len(page.forms) : ~ConsentMatch(page.forms[j].action)]

\* C4 (as claimed): the POST goes to the action of the last matching form and
\* its body is exactly the name/value pairs of the hidden inputs of that form.
C4_PostBodyIsHiddenFields ==
    \A k \in 1..Len(reqs) :
        reqs[k].method = "POST" =>
            /\ reqs[k].url = LastConsentForm(reqs[1].page[1]).action.s
            /\ DictPairs(reqs[k].data) = HiddenPairs(LastConsentForm(reqs[1].page[1]))

\* C5: a record whose Google_Maps is absent, null or empty is passed in one
\* step from the loop head to the loop head of the next record, with its image
\* set to null and no request issued.
C5_NoUrlNoRequest ==
    [][(pc = "loop" /\ idx <= Len(data) /\ NoUrlValue(data[idx].Google_Maps)) =>
          /\ pc' = "loop"
          /\ idx' = idx + 1
          /\ data'[idx].image = JNull
          /\ reqs' = <<>>]_vars

C5_Witness ==
    /\ pc = "loop"
    /\ idx = 3
    /\ ~NoUrlValue(data[1].Google_Maps)
    /\ data[2].Google_Maps = JStr(<<>>)
    /\ data[2].image = JNull
    /\ reqs = <<>>

\* C6: a first GET, consent POST or second GET that times out, fails to
\* connect or answers with an error status sets the record's image to null
\* and hands over to the next record; a run that reaches its end has gone
\* through every record, in input order.
C6_FetchFailureContinues ==
    /\ [][(pc \in {"get1", "post", "get2"} /\ reqs' # reqs /\ Last(reqs').exc # "") =>
             /\ data'[idx].image = JNull
             /\ \A j \in 1..Len(data) : j # idx => data'[j] = data[j]
             /\ idx' = idx + 1
             /\ pc' = "loop"]_vars
    /\ [](pc = "done" => (idx = Len(data) + 1 /\ Len(printed) = Len(data) + 1))

C6_Witness ==
    /\ pc = "done"
    /\ Len(data) = 2
    /\ printed[1] = "timeout"
    /\ data[1].image = JNull
    /\ printed[2] = "success"

HasMeta(page, attr, val) == \E k \in 1..Len(page.metas) : page.metas[k][attr] = JStr(<<val>>)

FirstMeta(page, attr, val) ==
    page.metas[CHOOSE k \in 1..Len(page.metas) :
                  /\ page.metas[k][attr] = JStr(<<val>>)
                  /\ \A j \in 1..(k - 1) : page.metas[j][attr] # JStr(<<val>>)]

\* C7: the image URL taken from the final page is the content of the
\* itemprop=image tag whenever the page has one, and the content of the
\* og:image tag only when it has none; with neither tag the record ends as
\* 'not found': image null, the warning, and no image request.
C7_ItempropPreferred ==
    /\ [](pc = "imgget" =>
             IF HasMeta(soup[1], "itemprop", "image")
             THEN image_url = FirstMeta(soup[1], "itemprop", "image").content.s
             ELSE /\ HasMeta(soup[1], "property", "og:image")
                  /\ image_url = FirstMeta(soup[1], "property", "og:image").content.s)
    /\ [][(pc = "locate" /\ ~HasMeta(soup[1], "itemprop", "image")
                         /\ ~HasMeta(soup[1], "property", "og:image")) =>
             /\ data'[idx].image = JNull
             /\ Last(printed') = "warning"
             /\ reqs' = reqs
             /\ pc' = "loop"]_vars

C7_Witness ==
    /\ pc = "imgget"
    /\ HasMeta(soup[1], "itemprop", "image")
    /\ HasMeta(soup[1], "property", "og:image")
    /\ FirstMeta(soup[1], "property", "og:image").content = ImgB
    /\ image_url = ImgA.s

\* C8: the results file holds the input records in the same number and order
\* with every field but image unchanged, and a step changes at most the image
\* field of the record being processed.
C8_OtherFieldsPreserved ==
    /\ [](pc = "done" =>
             /\ results_file # <<>>
             /\ Len(results_file[1]) = Len(input_file.items)
             /\ \A i \in 1..Len(input_file.items) :
                   SameButImage(results_file[1][i], input_file.items[i]))
    /\ [][pc # "load" =>
             /\ Len(data') = Len(data)
             /\ \A j \in 1..Len(data) :
                   /\ SameButImage(data'[j], data[j])
                   /\ data'[j] # data[j] => j = idx]_vars

C8_Witness ==
    /\ pc = "done"
    /\ Len(input_file.items) = 2
    /\ input_file.items[2].Rating.kind = "str"
    /\ results_file[1][1].image.kind = "str"
    /\ results_file[1][2].image = JNull

\* C9 (as claimed): with a missing or malformed input file the run stops
\* before any request and any record, and leaves no results file, no image
\* file and no newly created output directory.
C9_FatalLeavesNoOutput ==
    pc = "fatal" =>
        /\ reqs = <<>>
        /\ data = <<>>
        /\ session = "none"
        /\ results_file = <<>>
        /\ files = EmptyDict
        /\ dir_state # "created"

\* C10: sanitizing a sanitized name changes nothing, and a sanitized name
\* holds neither a space nor one of the removed characters.
C10_SanitizeIdempotent ==
    pc = "san2" =>
        /\ san_twice = san_once
        /\ \A k \in 1..Len(san_once[1]) : san_once[1][k] \notin (IllegalChars \cup {" "})

C10_Witness ==
    /\ pc = "san2"
    /\ Len(san_name) = 3
    /\ \E k \in 1..Len(san_name) : san_name[k] = " "
    /\ \E k \in 1..Len(san_name) : san_name[k] \in IllegalChars
    /\ Len(san_once[1]) = 2
    /\ san_twice = san_once

\* C11 (as claimed): at every point of a run each file of the output
\* directory holds the complete bytes of one downloaded image; no file is
\* ever empty or holds only part of an image.
C11_FilesCompleteOrAbsent == \A p \in DOMAIN files : files[p] \in ImageBodies

\* C12: for a record whose first GET answers with a page without consent
\* form, no POST and no second GET of the source URL is issued; the page of
\* the first GET is the final page, the one the meta tag is looked up in, and
\* the only request that may follow is the GET of the image found in it.
C12_NoConsentSingleFetch ==
    (reqs # <<>> /\ reqs[1].exc = "" /\ ~HasConsentForm(reqs[1].page[1])) =>
        /\ \A k \in 1..Len(reqs) : reqs[k].method = "GET"
        /\ Len(reqs) <= 2
        /\ (InItem /\ Len(reqs) = 1) => pc \in {"forms", "locate", "imgget"}
        /\ pc \in {"locate", "imgget"} =>
              (soup = reqs[1].page /\ final_response = reqs[1].page)
        /\ Len(reqs) = 2 =>
              /\ reqs[2].url # reqs[1].url
              /\ reqs[2].url = FindImageTag(reqs[1].page[1])[1].content.s

C12_Witness ==
    /\ Len(reqs) = 2
    /\ reqs[1].exc = ""
    /\ ~HasConsentForm(reqs[1].page[1])
    /\ reqs[2].content \in ImageBodies

SourceUrl(k) == data[reqs[k].item].Google_Maps.s

\* C13: for every record at most two GETs of its source URL, at most one
\* consent POST and at most one image GET are issued; a failed request is the
\* last one of its record; the forms are looked at after the first GET only,
\* so a consent form in the page of the second GET brings no second POST.
C13_NoRetrySingleConsent ==
    /\ Len(reqs) <= 4
    /\ Cardinality({ k \in 1..Len(reqs) : reqs[k].method = "POST" }) <= 1
    /\ Cardinality({ k \in 1..Len(reqs) :
                       reqs[k].method = "GET" /\ reqs[k].url = SourceUrl(k) }) <= 2
    /\ Cardinality({ k \in 1..Len(reqs) :
                       reqs[k].method = "GET" /\ reqs[k].url # SourceUrl(k) }) <= 1
    /\ \A k \in 1..(Len(reqs) - 1) : reqs[k].exc = ""
    /\ (reqs # <<>> /\ Last(reqs).exc # "") => ~InItem
    /\ pc \in {"forms", "post"} => Len(reqs) = 1

C13_Witness ==
    /\ pc = "loop"
    /\ Len(reqs) = 3
    /\ reqs[3].exc = ""
    /\ HasConsentForm(reqs[3].page[1])
    /\ Last(printed) = "warning"

\* C14: a failing image GET sets the record's image to null and leaves every
\* file of the output directory as it was; no step of the record before it
\* touches a file either, so a file written earlier under the same name keeps
\* its content.
C14_ImageFetchFailureKeepsFiles ==
    /\ [][(pc = "imgget" /\ reqs' # reqs /\ Last(reqs').exc # "") =>
             /\ data'[idx].image = JNull
             /\ files' = files
             /\ idx' = idx + 1
             /\ pc' = "loop"]_vars
    /\ [][(pc \in {"loop", "get1", "forms", "post", "get2", "locate", "imgget"}) =>
             files' = files]_vars

C14_Witness ==
    /\ pc = "loop"
    /\ idx = 3
    /\ data[1].image.kind = "str"
    /\ data[2].image = JNull
    /\ reqs # <<>>
    /\ Last(reqs).exc # ""
    /\ Last(reqs).url \in {ImgA.s, ImgB.s}
    /\ ImagePath(sanitize(GetDefault(data[2].Place_Name, unknown_place).s)) = data[1].image.s
    /\ files[data[1].image.s] \in ImageBodies

\* The image field of an item has been set by the run.
ImageSet(it) ==
    \/ it.image = JNull
    \/ it.image = JStr(ImagePath(sanitize(GetDefault(it.Place_Name, unknown_place).s)))

\* C15: the records are processed one at a time in input order: while the
\* loop runs, exactly the records before the current one have their outcome
\* and image and the others are as loaded; every request belongs to the
\* current record; the results file is written in one step, from absent to
\* the whole list, only after the image of the last record has been set.
C15_SequentialThenSave ==
    /\ []((InItem \/ pc = "loop") =>
             /\ Len(printed) = idx - 1
             /\ \A j \in 1..Len(data) :
                   IF j < idx THEN ImageSet(data[j]) ELSE data[j] = input_file.items[j])
    /\ [][(reqs' # reqs /\ reqs' # <<>>) =>
             /\ Last(reqs').item = idx
             /\ InItem
             /\ \A j \in 1..(idx - 1) : ImageSet(data[j])]_vars
    /\ [][results_file' # results_file =>
             /\ results_file = <<>>
             /\ pc = "save"
             /\ idx = Len(data) + 1
             /\ \A j \in 1..Len(data) : ImageSet(data[j])
             /\ results_file' = <<data>>]_vars
    /\ [](pc = "done" => results_file = <<data>>)

C15_Witness ==
    /\ pc = "done"
    /\ Len(data) = 2
    /\ printed[1] = "success"
    /\ printed[2] = "warning"
    /\ results_file = <<data>>

C17_CollisionLastWriterWins ==
    /\ []((pc = "loop" /\ idx > 1 /\ printed[idx - 1] = "success") =>
             /\ data[idx - 1].image.kind = "str"
             /\ data[idx - 1].image.s \in DOMAIN files
             /\ files[data[idx - 1].image.s] = Last(reqs).content)
    /\ [][files' # files =>
             /\ pc \in {"open", "fwrite"}
             /\ DOMAIN files' = DOMAIN files \cup {image_path}
             /\ \A q \in DOMAIN files : q # image_path => files'[q] = files[q]]_vars
    /\ [](pc \in {"save", "done"} =>
             /\ \A i, j \in 1..Len(data) :
                   (/\ printed[i] = "success" /\ printed[j] = "success"
                    /\ sanitize(GetDefault(data[i].Place_Name, unknown_place).s)
                         = sanitize(GetDefault(data[j].Place_Name, unknown_place).s))
                   => data[i].image = data[j].image
             /\ DOMAIN files = { data[i].image.s :
                                   i \in { j \in 1..Len(data) : printed[j] = "success" } }
             /\ \A q \in DOMAIN files : files[q] \in ImageBodies)

C17_Witness ==
    /\ pc = "loop"
    /\ idx = 3
    /\ printed = <<"success", "success">>
    /\ data[1].Place_Name # data[2].Place_Name
    /\ data[1].image = data[2].image
    /\ Cardinality(DOMAIN files) = 1
    /\ files[data[2].image.s] = Last(reqs).content

\* The steps a run can still take, at most: ten per record not yet done.
PcRank ==
    CASE pc = "loop" -> 9
      [] pc = "get1" -> 8
      [] pc = "forms" -> 7
      [] pc = "post" -> 6
      [] pc = "get2" -> 5
      [] pc = "locate" -> 4
      [] pc = "imgget" -> 3
      [] pc = "open" -> 2
      [] pc = "fwrite" -> 1
      [] OTHER -> 0

Measure ==
    CASE pc = "start" -> 10 * Len(input_file.items) + 13
      [] pc = "load" -> 10 * Len(input_file.items) + 12
      [] pc = "save" -> 1
      [] pc \in {"done", "fatal", "crashed"} -> 0
      [] OTHER -> 10 * (Len(data) - idx + 1) + PcRank + 2

C19_EmptyItempropNoFallback ==
    [][(/\ pc = "locate"
        /\ HasMeta(soup[1], "itemprop", "image")
        /\ FirstMeta(soup[1], "itemprop", "image").content \in {JAbsent, JStr(<<>>)}
        /\ HasMeta(soup[1], "property", "og:image")
        /\ FirstMeta(soup[1], "property", "og:image").content = ImgB) =>
          /\ data'[idx].image = JNull
          /\ Last(printed') = "warning"
          /\ reqs' = reqs
          /\ idx' = idx + 1
          /\ pc' = "loop"]_vars

C19_Witness ==
    /\ pc = "loop"
    /\ idx > 1
    /\ Last(printed) = "warning"
    /\ data[idx - 1].image = JNull
    /\ reqs # <<>>
    /\ Last(reqs).page = <<[forms |-> <<SearchForm>>,
                           metas |-> <<ItemProp(JAbsent), OgImage(ImgB)>>]>>

====
